---- MODULE Spec2Model ----
(***************************************************************************)
(* A model of service.skin.widgets (default.py): the launcher that opens   *)
(* a media item, and the service that fills the home window's properties   *)
(* from JSON-RPC queries, refreshes them from its daemon loop and from the *)
(* Monitor/Player callbacks, and hands over to a newer instance.           *)
(***************************************************************************)
EXTENDS Integers, Sequences, FiniteSets, TLC

VARIABLES
    argv,      \* sys.argv of each instance: a sequence of arguments, each a
               \* sequence of '&'-separated pieces, each a sequence of
               \* '='-separated tokens (argv[i][1] is the script name)
    pc,        \* where each instance is in Main.__init__ / Main._daemon
    me,        \* the attributes of each instance's Main object
    WINDOW,    \* xbmcgui.Window(10000): property name -> value (set ones only)
    settings,  \* the add-on's settings: id -> string
    lib,       \* the host's library, which answers the JSON-RPC queries
    abort,     \* Monitor.abortRequested()
    playing,   \* Player.isPlayingVideo()
    windowId,  \* xbmcgui.getCurrentWindowId()
    out,       \* what the last step did: the handler, its argument, the
               \* JSON-RPC requests it issued, the fetches it called, the
               \* exception it raised
    handoff,   \* pairs <<old, new>>: new cleared SkinWidgets_Running while
               \* old was in its daemon loop
    focus      \* SpecFetch: the request being fetched, and how many times

vars == <<argv, pc, me, WINDOW, settings, lib, abort, playing, windowId, out,
          handoff, focus>>

----------------------------------------------------------------------------
(* Bounds of the model *)

MaxPieces == 2     \* '&'-separated pieces in the first argument
MaxShuffle == 3    \* lists up to this length are shuffled into every order
MaxFetches == 2    \* fetches of the request in focus in SpecFetch

(* Program constants *)

LIMIT == 20        \* self.LIMIT
HOME == 10000      \* the home window's id

Instances == {1, 2}

----------------------------------------------------------------------------
(* Python values: getSetting returns a str, and the code compares some of   *)
(* them with int literals; str == int is False in Python.                   *)

PyStr(s) == [t |-> "str", s |-> s, i |-> 0]
PyInt(n) == [t |-> "int", s |-> "", i |-> n]
PyEq(a, b) == a.t = b.t /\ a.s = b.s /\ a.i = b.i

RECURSIVE Repeat(_, _)
Repeat(s, n) ==
    IF n <= 0 THEN ""
    ELSE LET half == Repeat(s, n \div 2)
         IN IF n % 2 = 0 THEN half \o half ELSE half \o half \o s

\* str * int is repetition, int * int is the product
PyMul(a, n) == IF a.t = "str" THEN PyStr(Repeat(a.s, n)) ELSE PyInt(a.i * n)

\* int(str): the value, or ValueError (-1 stands for the raise)
Numeric == {"0", "1", "5", "7"}
IntOf(s) ==
    CASE s = "0" -> 0 [] s = "1" -> 1 [] s = "5" -> 5 [] s = "7" -> 7 [] OTHER -> -1

----------------------------------------------------------------------------
(* Window properties *)

getProperty(w, k) == IF k \in DOMAIN w THEN w[k] ELSE ""
setProperty(w, k, v) == [x \in DOMAIN w \cup {k} |-> IF x = k THEN v ELSE w[x]]
clearProperty(w, k) == [x \in DOMAIN w \ {k} |-> w[x]]

Slot(request, n, field) == request \o "." \o ToString(n) \o "." \o field

getSetting(id) == settings[id]

----------------------------------------------------------------------------
(* JSON-RPC requests, as the fields the code varies *)

NoRpc == [method |-> "", key |-> "", id |-> 0, resume |-> "", sort |-> "",
          order |-> "", filter |-> "", end |-> 0]

PlayerOpen(key, id, resume) ==
    [NoRpc EXCEPT !.method = "Player.Open", !.key = key, !.id = id,
                  !.resume = resume]

Query(method, sort, order, filter, end) ==
    [NoRpc EXCEPT !.method = method, !.sort = sort, !.order = order,
                  !.filter = filter, !.end = end]

----------------------------------------------------------------------------
(* Main._parse_argv *)

IdKeys == <<"movieid", "episodeid", "musicvideoid", "albumid", "songid">>

\* dict(arg.split("=") for arg in sys.argv[1].split("&")): raises when there
\* is no sys.argv[1] or a piece has not exactly two tokens; then params = {}
ParamsOk(av) == Len(av) >= 2 /\ \A p \in 1..Len(av[2]) : Len(av[2][p]) = 2

\* params.get(key, ""): the last piece with that key wins
RECURSIVE ParamGet(_, _)
ParamGet(pieces, key) ==
    IF pieces = <<>> THEN ""
    ELSE LET last == pieces[Len(pieces)]
         IN IF last[1] = key THEN last[2]
            ELSE ParamGet(SubSeq(pieces, 1, Len(pieces) - 1), key)

Param(av, key) == IF ParamsOk(av) THEN ParamGet(av[2], key) ELSE ""

\* param.replace('resume=', '') of one piece: a token "resume" before a '='
\* goes, with the '='
RECURSIVE StripResume(_)
StripResume(piece) ==
    IF Len(piece) >= 2 /\ piece[1] = "resume" THEN StripResume(Tail(piece))
    ELSE piece

\* 'resume=' in param and param.replace('resume=', '') == "false"
ResumeFalse(arg) ==
    /\ \E p \in 1..Len(arg) : \E t \in 1..(Len(arg[p]) - 1) : arg[p][t] = "resume"
    /\ Len(arg) = 1
    /\ StripResume(arg[1]) = <<"false">>

Resume(av) == IF \E a \in 1..Len(av) : ResumeFalse(av[a]) THEN "false" ELSE "true"

parse_argv(m, av) ==
    [m EXCEPT !.MOVIEID = Param(av, "movieid"),
              !.EPISODEID = Param(av, "episodeid"),
              !.MUSICVIDEOID = Param(av, "musicvideoid"),
              !.ALBUMID = Param(av, "albumid"),
              !.SONGID = Param(av, "songid"),
              !.RESUME = Resume(av),
              !.SHUTDOWNDLOG = Param(av, "shutdown")]

----------------------------------------------------------------------------
(* The host's library and its answers *)

addonid == "service.skin.widgets"

Row(id, title) == [id |-> id, title |-> title, type |-> "", enabled |-> TRUE]

\* k rows with ids base+1 .. base+k, in the order the host answers them
Rows(prefix, base, k) ==
    [n \in 1..k |-> Row(base + n, prefix \o ToString(base + n))]

\* add-ons: every tenth is no script or plugin, every other fifth is disabled
AddonRows(base, k) ==
    [n \in 1..k |->
        [id |-> base + n, title |-> "addon" \o ToString(base + n),
         type |-> IF (base + n) % 10 = 0 THEN "xbmc.addon.repository"
                  ELSE IF (base + n) % 2 = 0 THEN "xbmc.python.script"
                  ELSE "xbmc.python.pluginsource",
         enabled |-> (base + n) % 10 # 5]]

\* an answer: "error" has no 'result', "nolist" has a 'result' without the
\* list, "list" has the list
Error == [kind |-> "error", rows |-> <<>>]
NoList == [kind |-> "nolist", rows |-> <<>>]
List(rows) == [kind |-> "list", rows |-> rows]
HasList(resp) == resp.kind = "list"

\* the host honours "limits": {"end": n}
Answer(resp, end) ==
    IF HasList(resp) /\ end > 0 /\ Len(resp.rows) > end
    THEN List(SubSeq(resp.rows, 1, end))
    ELSE resp

\* a library in which every list has k rows (ids from base), the shows in
\* noep have no unplayed episode, and the add-on queries answer as given
MkLib(kind, k, base, noep, audio, video, unknown) ==
    LET R(prefix) == IF kind = "list" THEN List(Rows(prefix, base, k))
                     ELSE [kind |-> kind, rows |-> <<>>]
    IN [movies |-> R("movie"), tvshows |-> R("show"), episodes |-> R("episode"),
        musicvideos |-> R("musicvideo"), albums |-> R("album"),
        artists |-> R("artist"), songs |-> R("song"),
        noep |-> noep, shutdownstate |-> 1,
        addons |-> [c \in {"audio", "video", "unknown"} |->
                      CASE c = "audio" -> audio
                        [] c = "video" -> video
                        [] OTHER -> unknown]]

\* VideoLibrary.GetEpisodes of one show, unplayed only, "limits": {"end": 1}
EpisodesOf(l, tvshowid) ==
    IF tvshowid \in l.noep THEN NoList
    ELSE List(<<Row(1000 + tvshowid, "episode" \o ToString(1000 + tvshowid))>>)

----------------------------------------------------------------------------
(* Main._clear_properties *)

\* clearProperty of the request's Title in the slots 1..LIMIT, nothing else
clear_properties(w, request) ==
    LET cleared == {Slot(request, n, "Title") : n \in 1..LIMIT}
    IN [x \in DOMAIN w \ cleared |-> w[x]]

----------------------------------------------------------------------------
(* The effect of a handler so far: the window, the object's attributes, the *)
(* requests issued, the fetches called, the exception raised ("" for none)  *)

Effect(w, m) == [win |-> w, me |-> m, rpc |-> <<>>, calls |-> <<>>, raised |-> ""]

Call(E, op, request) ==
    [E EXCEPT !.calls = Append(@, [op |-> op, request |-> request])]

Issue(E, q) == [E EXCEPT !.rpc = Append(@, q)]

Play(idkey, id) ==
    "RunScript(" \o addonid \o "," \o idkey \o "=" \o ToString(id) \o ")"

\* setProperty of two fields in each of the slots 1..k: slot n gets
\* <<title[n], other[n]>> under the keys Title and field
SetSlots(w, request, k, field, title, other) ==
    LET tkey == [n \in 1..k |-> Slot(request, n, "Title")]
        okey == [n \in 1..k |-> Slot(request, n, field)]
        keys == {tkey[n] : n \in 1..k} \cup {okey[n] : n \in 1..k}
    IN [x \in DOMAIN w \cup keys |->
          IF \E n \in 1..k : tkey[n] = x
          THEN title[CHOOSE n \in 1..k : tkey[n] = x]
          ELSE IF \E n \in 1..k : okey[n] = x
          THEN other[CHOOSE n \in 1..k : okey[n] = x]
          ELSE w[x]]

\* the loop over the rows: slot count gets the row's Title and its Play
SetRows(w, request, rows, idkey) ==
    SetSlots(w, request, Len(rows), "Play",
             [n \in 1..Len(rows) |-> rows[n].title],
             [n \in 1..Len(rows) |-> Play(idkey, rows[n].id)])

\* the rows set without clearing the slots first
MutStoreNoClear(E, request, resp, idkey) ==
    IF HasList(resp)
    THEN [E EXCEPT !.win = SetRows(E.win, request, resp.rows, idkey)]
    ELSE E

\* if the answer has the list: clear the request's slots, then set the rows
Store(E, request, resp, idkey) ==
    IF HasList(resp)
    THEN [E EXCEPT !.win = SetRows(clear_properties(E.win, request), request,
                                   resp.rows, idkey)]
    ELSE E

----------------------------------------------------------------------------
(* The fetch operations. Each is called with the effect so far and returns  *)
(* the effect after it; an exception already raised passes through.         *)

\* the two unplayed flags taken for each other
MutMoviesQuery(m, request) ==
    IF request = "RecommendedMovie"
    THEN Query("VideoLibrary.GetMovies", "lastplayed", "descending",
               "inprogress true", LIMIT)
    ELSE IF request = "RecentMovie" /\ m.RANDOMITEMS_UNPLAYED
    THEN Query("VideoLibrary.GetMovies", "dateadded", "descending",
               "playcount is 0", LIMIT)
    ELSE IF request = "RecentMovie"
    THEN Query("VideoLibrary.GetMovies", "dateadded", "descending", "", LIMIT)
    ELSE IF request = "RandomMovie" /\ m.RECENTITEMS_UNPLAYED
    THEN Query("VideoLibrary.GetMovies", "random", "",
               "playcount lessthan 1", LIMIT)
    ELSE Query("VideoLibrary.GetMovies", "random", "", "", LIMIT)

\* the sort/filter policy of _fetch_movies
MoviesQuery(m, request) ==
    IF request = "RecommendedMovie"
    THEN Query("VideoLibrary.GetMovies", "lastplayed", "descending",
               "inprogress true", LIMIT)
    ELSE IF request = "RecentMovie" /\ m.RECENTITEMS_UNPLAYED
    THEN Query("VideoLibrary.GetMovies", "dateadded", "descending",
               "playcount is 0", LIMIT)
    ELSE IF request = "RecentMovie"
    THEN Query("VideoLibrary.GetMovies", "dateadded", "descending", "", LIMIT)
    ELSE IF request = "RandomMovie" /\ m.RANDOMITEMS_UNPLAYED
    THEN Query("VideoLibrary.GetMovies", "random", "",
               "playcount lessthan 1", LIMIT)
    ELSE Query("VideoLibrary.GetMovies", "random", "", "", LIMIT)

fetch_movies(E0, request) ==
    IF E0.raised # "" THEN E0
    ELSE LET E == Call(E0, "_fetch_movies", request)
             q == MoviesQuery(E.me, request)
         IN IF abort THEN E
            ELSE Store(Issue(E, q), request, Answer(lib.movies, q.end), "movieid")

\* _fetch_tvshows_recommended: the in-progress shows, and for each show its
\* first unplayed episode, which fills the show's slot
TvshowsQuery ==
    Query("VideoLibrary.GetTVShows", "lastplayed", "descending",
          "inprogress true", LIMIT)

NextEpisodeQuery(tvshowid) ==
    [Query("VideoLibrary.GetEpisodes", "episode", "", "playcount is 0", 1)
        EXCEPT !.key = "tvshowid", !.id = tvshowid]

\* the loop over the shows: one episode query per show; slot count is set
\* only when the show has an unplayed episode
ShowRows(E, request, shows) ==
    LET k == Len(shows)
        resp2 == [n \in 1..k |->
                    Answer(EpisodesOf(lib, shows[n].id),
                           NextEpisodeQuery(shows[n].id).end)]
        has(n) == HasList(resp2[n]) /\ Len(resp2[n].rows) > 0
        tkey == [n \in 1..k |-> Slot(request, n, "Title")]
        pkey == [n \in 1..k |-> Slot(request, n, "Play")]
        keys == {tkey[n] : n \in {c \in 1..k : has(c)}}
                  \cup {pkey[n] : n \in {c \in 1..k : has(c)}}
    IN [E EXCEPT
          !.rpc = @ \o [n \in 1..k |-> NextEpisodeQuery(shows[n].id)],
          !.win = [x \in DOMAIN E.win \cup keys |->
                     IF \E n \in 1..k : has(n) /\ tkey[n] = x
                     THEN resp2[CHOOSE n \in 1..k : tkey[n] = x].rows[1].title
                     ELSE IF \E n \in 1..k : has(n) /\ pkey[n] = x
                     THEN Play("episodeid",
                               resp2[CHOOSE n \in 1..k : pkey[n] = x].rows[1].id)
                     ELSE E.win[x]]]

fetch_tvshows_recommended(E0, request) ==
    IF E0.raised # "" THEN E0
    ELSE LET E == Call(E0, "_fetch_tvshows_recommended", request)
             resp == Answer(lib.tvshows, TvshowsQuery.end)
             E1 == Issue(E, TvshowsQuery)
         IN IF abort THEN E
            ELSE IF HasList(resp)
            THEN ShowRows([E1 EXCEPT !.win = clear_properties(@, request)],
                          request, resp.rows)
            ELSE E1

EpisodesQuery(m, request) ==
    IF request = "RecentEpisode" /\ m.RECENTITEMS_UNPLAYED
    THEN Query("VideoLibrary.GetEpisodes", "dateadded", "descending",
               "playcount lessthan 1", LIMIT)
    ELSE IF request = "RecentEpisode"
    THEN Query("VideoLibrary.GetEpisodes", "dateadded", "descending", "", LIMIT)
    ELSE IF request = "RandomEpisode" /\ m.RANDOMITEMS_UNPLAYED
    THEN Query("VideoLibrary.GetEpisodes", "random", "",
               "playcount lessthan 1", LIMIT)
    ELSE Query("VideoLibrary.GetEpisodes", "random", "", "", LIMIT)

fetch_tvshows(E0, request) ==
    IF E0.raised # "" THEN E0
    ELSE LET E == Call(E0, "_fetch_tvshows", request)
             q == EpisodesQuery(E.me, request)
         IN IF abort THEN E
            ELSE Store(Issue(E, q), request, Answer(lib.episodes, q.end),
                       "episodeid")

MusicVideosQuery(request) ==
    IF request = "RecommendedMusicVideo"
    THEN Query("VideoLibrary.GetMusicVideos", "playcount", "descending", "", LIMIT)
    ELSE IF request = "RecentMusicVideo"
    THEN Query("VideoLibrary.GetMusicVideos", "dateadded", "descending", "", LIMIT)
    ELSE Query("VideoLibrary.GetMusicVideos", "random", "", "", LIMIT)

fetch_musicvideo(E0, request) ==
    IF E0.raised # "" THEN E0
    ELSE LET E == Call(E0, "_fetch_musicvideo", request)
             q == MusicVideosQuery(request)
         IN IF abort THEN E
            ELSE Store(Issue(E, q), request, Answer(lib.musicvideos, q.end),
                       "musicvideoid")

AlbumsQuery(request) ==
    IF request = "RecommendedAlbum"
    THEN Query("AudioLibrary.GetAlbums", "playcount", "descending", "", LIMIT)
    ELSE IF request = "RecentAlbum"
    THEN Query("AudioLibrary.GetAlbums", "dateadded", "descending", "", LIMIT)
    ELSE Query("AudioLibrary.GetAlbums", "random", "", "", LIMIT)

fetch_albums(E0, request) ==
    IF E0.raised # "" THEN E0
    ELSE LET E == Call(E0, "_fetch_albums", request)
             q == AlbumsQuery(request)
         IN IF abort THEN E
            ELSE Store(Issue(E, q), request, Answer(lib.albums, q.end), "albumid")

ArtistsQuery == Query("AudioLibrary.GetArtists", "random", "", "", LIMIT)

\* the artist's slot gets the row's label as Title, and LibraryPath, no Play
SetArtists(w, request, rows) ==
    SetSlots(w, request, Len(rows), "LibraryPath",
             [n \in 1..Len(rows) |-> rows[n].title],
             [n \in 1..Len(rows) |-> "musicdb://2/" \o ToString(rows[n].id) \o "/"])

fetch_artist(E0, request) ==
    IF E0.raised # "" THEN E0
    ELSE LET E == Call(E0, "_fetch_artist", request)
             resp == Answer(lib.artists, ArtistsQuery.end)
             E1 == Issue(E, ArtistsQuery)
         IN IF abort THEN E
            ELSE IF HasList(resp)
            THEN [E1 EXCEPT !.win = SetArtists(clear_properties(@, request),
                                               request, resp.rows)]
            ELSE E1

\* both branches of _fetch_song issue the same query: the filter is part of
\* the common prefix
SongsQuery ==
    Query("AudioLibrary.GetSongs", "random", "", "playcount lessthan 1", LIMIT)

fetch_song(E0, request) ==
    IF E0.raised # "" THEN E0
    ELSE LET E == Call(E0, "_fetch_song", request)
         IN IF abort THEN E
            ELSE Store(Issue(E, SongsQuery), request,
                       Answer(lib.songs, SongsQuery.end), "songid")

\* _fetch_addon: the enabled scripts and plugins of the three contents, in a
\* random order, the first LIMIT of them
AddonsQuery(content) ==
    [Query("Addons.GetAddons", "", "", "", 0) EXCEPT !.key = content]

IsWidgetAddon(item) ==
    /\ item.type \in {"xbmc.python.script", "xbmc.python.pluginsource"}
    /\ item.enabled

RECURSIVE SelectAddons(_)
SelectAddons(rows) ==
    IF rows = <<>> THEN <<>>
    ELSE (IF IsWidgetAddon(Head(rows)) THEN <<Head(rows)>> ELSE <<>>)
         \o SelectAddons(Tail(rows))

\* addonlist before the shuffle
AddonList(l) ==
    SelectAddons(l.addons["audio"].rows) \o SelectAddons(l.addons["video"].rows)
        \o SelectAddons(l.addons["unknown"].rows)

\* random.shuffle: any order of the list; of a list longer than MaxShuffle
\* only its rotations are enumerated
Rotation(s, r) == [n \in 1..Len(s) |-> s[((n + r - 1) % Len(s)) + 1]]

Shuffles(s) ==
    IF Len(s) = 0 THEN {s}
    ELSE IF Len(s) <= MaxShuffle
    THEN {[n \in 1..Len(s) |-> s[f[n]]] :
            f \in {g \in [1..Len(s) -> 1..Len(s)] :
                     \A a, b \in 1..Len(s) : a # b => g[a] # g[b]}}
    ELSE {Rotation(s, r) : r \in 0..(Len(s) - 1)}

\* the loop over addonlist, which stops after slot LIMIT
SetAddons(w, request, addonlist) ==
    LET k == IF Len(addonlist) > LIMIT THEN LIMIT ELSE Len(addonlist)
    IN SetSlots(w, request, k, "Path",
                [n \in 1..k |-> addonlist[n].title],
                [n \in 1..k |-> "addon." \o ToString(addonlist[n].id)])

fetch_addon(E0, request, shuffled) ==
    IF E0.raised # "" THEN E0
    ELSE LET E == Call(E0, "_fetch_addon", request)
             E1 == Issue(Issue(Issue(E, AddonsQuery("audio")),
                               AddonsQuery("video")), AddonsQuery("unknown"))
             last == lib.addons["unknown"]
             w1 == SetAddons(clear_properties(E1.win, request), request,
                             shuffled)
         IN IF abort
            THEN \* del json_query of a name never bound
                 [E EXCEPT !.raised = "UnboundLocalError"]
            ELSE IF last.kind = "error"
            THEN \* json_query['result'] of the last answer
                 [E1 EXCEPT !.win = w1, !.raised = "KeyError"]
            ELSE [E1 EXCEPT !.win = setProperty(w1, request \o ".Count",
                                                ToString(Len(last.rows)))]

----------------------------------------------------------------------------
(* _fetch_info_recommended, _fetch_info_randomitems, _fetch_info_recentitems *)

fetch_info_recommended(E) ==
    IF E.raised = "" /\ getSetting("recommended_enable") = "true"
    THEN fetch_musicvideo(
           fetch_albums(
             fetch_tvshows_recommended(
               fetch_movies(E, "RecommendedMovie"),
               "RecommendedEpisode"),
             "RecommendedAlbum"),
           "RecommendedMusicVideo")
    ELSE E

fetch_info_randomitems(E, shuffled) ==
    IF E.raised = "" /\ getSetting("randomitems_enable") = "true"
    THEN LET E1 == [E EXCEPT !.me.RANDOMITEMS_UNPLAYED =
                                (getSetting("randomitems_unplayed") = "true")]
         IN fetch_addon(
              fetch_song(
                fetch_artist(
                  fetch_albums(
                    fetch_musicvideo(
                      fetch_tvshows(
                        fetch_movies(E1, "RandomMovie"),
                        "RandomEpisode"),
                      "RandomMusicVideo"),
                    "RandomAlbum"),
                  "RandomArtist"),
                "RandomSong"),
              "RandomAddon", shuffled)
    ELSE E

\* the recent widgets without the albums
MutFetchInfoRecentitems(E) ==
    IF E.raised = "" /\ getSetting("recentitems_enable") = "true"
    THEN fetch_musicvideo(
           fetch_tvshows(fetch_movies(E, "RecentMovie"), "RecentEpisode"),
           "RecentMusicVideo")
    ELSE E

fetch_info_recentitems(E) ==
    IF E.raised = "" /\ getSetting("recentitems_enable") = "true"
    THEN LET E1 == [E EXCEPT !.me.RECENTITEMS_UNPLAYED =
                                (getSetting("recentitems_unplayed") = "true")]
         IN fetch_albums(
              fetch_musicvideo(
                fetch_tvshows(
                  fetch_movies(E1, "RecentMovie"),
                  "RecentEpisode"),
                "RecentMusicVideo"),
              "RecentAlbum")
    ELSE E

----------------------------------------------------------------------------
(* get_shutdown_mode, _init_vars, _init_property *)

MODES == <<13009, 13005, 13010, 13011, 13013, 13014>>

getLocalizedString(n) == "string" \o ToString(n)

ShutdownQuery ==
    [Query("Settings.GetSettingValue", "", "", "", 0)
        EXCEPT !.key = "powermanagement.shutdownstate"]

\* the localized name of the host's shutdown mode, '' without a 'result'
get_shutdown_mode ==
    IF lib.shutdownstate \in 0..5
    THEN getLocalizedString(MODES[lib.shutdownstate + 1])
    ELSE ""

init_vars(m) ==
    [m EXCEPT !.callbacks = TRUE, !.type = "",
              !.RANDOMITEMS_UNPLAYED = FALSE, !.RECENTITEMS_UNPLAYED = FALSE]

init_property(E) ==
    LET w1 == setProperty(E.win, "Shutdown_mode", get_shutdown_mode)
        w2 == setProperty(w1, "SkinWidgets_Recommended",
                          getSetting("recommended_enable"))
        w3 == setProperty(w2, "SkinWidgets_RandomItems",
                          getSetting("randomitems_enable"))
        w4 == setProperty(w3, "SkinWidgets_RecentItems",
                          getSetting("recentitems_enable"))
        w5 == setProperty(w4, "SkinWidgets_RandomItems_Update", "false")
    IN [Issue(E, ShutdownQuery) EXCEPT
          !.win = w5,
          !.me.RANDOMITEMS_UPDATE_METHOD = PyStr(getSetting("randomitems_method")),
          !.me.RECENTITEMS_HOME_UPDATE = getSetting("recentitems_homeupdate"),
          !.me.PLOT_ENABLE = (getSetting("plot_enable") = "true"),
          !.me.RANDOMITEMS_TIME =
              PyMul(PyStr(getSetting("randomitems_time")), 120)]

----------------------------------------------------------------------------
(* Main._update: the Monitor's onScanFinished and the Player's stop/end     *)
(* callbacks run it; it begins with waitForAbort(1)                         *)

\* the random widgets of the library, should the update method be 1
update_random(E, vidtype, shuffled) ==
    IF E.raised = "" /\ PyEq(E.me.RANDOMITEMS_UPDATE_METHOD, PyInt(1))
    THEN IF vidtype = "video"
         THEN fetch_musicvideo(
                fetch_tvshows(fetch_movies(E, "RandomMovie"), "RandomEpisode"),
                "RandomMusicVideo")
         ELSE IF vidtype = "music"
         THEN fetch_addon(
                fetch_song(
                  fetch_artist(fetch_albums(E, "RandomAlbum"), "RandomArtist"),
                  "RandomSong"),
                "RandomAddon", shuffled)
         ELSE E
    ELSE E

\* a scan handled like the end of a playback, and no look at the abort
MutUpdate(E, vidtype, shuffled) ==
    IF vidtype = "music"
    THEN fetch_albums(E, "RecommendedAlbum")
    ELSE fetch_movies(fetch_movies(E, "RecommendedMovie"), "RecentMovie")

update(E, vidtype, shuffled) ==
    IF abort THEN E
    ELSE update_random(
           CASE vidtype = "movie" ->
                  fetch_movies(fetch_movies(E, "RecommendedMovie"), "RecentMovie")
             [] vidtype = "episode" ->
                  fetch_tvshows(
                    fetch_tvshows_recommended(E, "RecommendedEpisode"),
                    "RecentEpisode")
             [] vidtype = "video" ->
                  fetch_musicvideo(
                    fetch_tvshows(
                      fetch_movies(
                        fetch_tvshows_recommended(
                          fetch_movies(E, "RecommendedMovie"),
                          "RecommendedEpisode"),
                        "RecentMovie"),
                      "RecentEpisode"),
                    "RecentMusicVideo")
             [] vidtype = "musicvideo" ->
                  fetch_musicvideo(
                    fetch_musicvideo(E, "RecommendedMusicVideo"),
                    "RecentMusicVideo")
             [] vidtype = "music" ->
                  fetch_albums(fetch_albums(E, "RecommendedAlbum"), "RecentAlbum")
             [] OTHER -> E,
           vidtype, shuffled)

----------------------------------------------------------------------------
(* Main._daemon *)

clearlist_groups == <<"Recommended", "Random", "Recent">>
clearlist_types == <<"Movie", "Episode", "MusicVideo", "Album", "Artist",
                     "Song", "Addon">>

\* the clearing without the last group
MutClearAll(w) ==
    LET cleared == {Slot(clearlist_groups[g] \o clearlist_types[t], n, "Title") :
                      g \in 1..(Len(clearlist_groups) - 1),
                      t \in 1..Len(clearlist_types), n \in 1..LIMIT}
    IN [x \in DOMAIN w \ cleared |-> w[x]]

\* the two nested loops over clearlist_groups and clearlist_types, each
\* pass a _clear_properties(item_group + item_type)
ClearAll(w) ==
    LET cleared == {Slot(clearlist_groups[g] \o clearlist_types[t], n, "Title") :
                      g \in 1..Len(clearlist_groups),
                      t \in 1..Len(clearlist_types), n \in 1..LIMIT}
    IN [x \in DOMAIN w \ cleared |-> w[x]]

\* count = 0 after the timer's fetch returned
count_reset(F) == IF F.raised = "" THEN [F EXCEPT !.me.count = 0] ELSE F

\* the timer: one more tick, and the random widgets when the count is due
daemon_timer(E, shuffled) ==
    IF PyEq(E.me.RANDOMITEMS_UPDATE_METHOD, PyInt(0))
    THEN IF PyEq(PyInt(E.me.count + 1), E.me.RANDOMITEMS_TIME)
         THEN count_reset(
                fetch_info_randomitems([E EXCEPT !.me.count = @ + 1], shuffled))
         ELSE [E EXCEPT !.me.count = @ + 1]
    ELSE E

\* the skin's request for new random widgets
daemon_asked(E, shuffled) ==
    IF E.raised = "" /\ getProperty(E.win, "SkinWidgets_RandomItems_Update") = "true"
    THEN fetch_info_randomitems(
           [E EXCEPT !.me.count = 0,
                     !.win = setProperty(@, "SkinWidgets_RandomItems_Update",
                                         "false")],
           shuffled)
    ELSE E

\* home_update = False after the recent widgets were fetched
home_reset(F) == IF F.raised = "" THEN [F EXCEPT !.me.home_update = FALSE] ELSE F

\* the recent widgets when the home window shows again
daemon_home(E) ==
    IF E.raised # "" THEN E
    ELSE IF /\ E.me.RECENTITEMS_HOME_UPDATE = "true"
            /\ E.me.home_update
            /\ windowId = HOME
    THEN home_reset(fetch_info_recentitems(E))
    ELSE IF /\ E.me.RECENTITEMS_HOME_UPDATE = "true"
            /\ ~E.me.home_update
            /\ windowId # HOME
    THEN [E EXCEPT !.me.home_update = TRUE]
    ELSE E

\* one pass of the loop body, after waitForAbort(1) returned False
daemon_body(E, shuffled) ==
    IF playing THEN E
    ELSE daemon_home(daemon_asked(daemon_timer(E, shuffled), shuffled))

----------------------------------------------------------------------------
(* The steps of an instance: Main.__init__ up to the daemon loop, then the  *)
(* loop. pc: "off" (not launched), "start", "startup" (service initialised, *)
(* SkinWidgets_Running cleared), "set_running", "daemon" (at the loop       *)
(* condition), "waiting" (in waitForAbort), "done", "crashed".              *)

Loop == {"daemon", "waiting"}

Did(op, i, arg, E) ==
    [op |-> op, inst |-> i, arg |-> arg, rpc |-> E.rpc, calls |-> E.calls,
     raised |-> E.raised]

Idle == [op |-> "", inst |-> 0, arg |-> "", rpc |-> <<>>, calls |-> <<>>,
         raised |-> ""]

\* the precedence reversed
MutFirstId(m) ==
    IF m.SONGID # "" THEN 5
    ELSE IF m.ALBUMID # "" THEN 4
    ELSE IF m.MUSICVIDEOID # "" THEN 3
    ELSE IF m.EPISODEID # "" THEN 2
    ELSE IF m.MOVIEID # "" THEN 1
    ELSE 0

\* the first non-empty id of MOVIEID, EPISODEID, ..., 0 when all are empty
FirstId(m) ==
    IF m.MOVIEID # "" THEN 1
    ELSE IF m.EPISODEID # "" THEN 2
    ELSE IF m.MUSICVIDEOID # "" THEN 3
    ELSE IF m.ALBUMID # "" THEN 4
    ELSE IF m.SONGID # "" THEN 5
    ELSE 0

IdValue(m, k) ==
    CASE k = 1 -> m.MOVIEID [] k = 2 -> m.EPISODEID [] k = 3 -> m.MUSICVIDEOID
      [] k = 4 -> m.ALBUMID [] OTHER -> m.SONGID

\* every kind's request carrying the resume option
MutOpenRequest(m, k) ==
    PlayerOpen(IdKeys[k], IntOf(IdValue(m, k)), m.RESUME)

\* the Player.Open request of the k-th id kind: only the movie's and the
\* episode's carry "options": {"resume": ...}
OpenRequest(m, k) ==
    PlayerOpen(IdKeys[k], IntOf(IdValue(m, k)),
               IF k \in {1, 2} THEN m.RESUME ELSE "")

\* Main.__init__, up to the clearing of SkinWidgets_Running
Main_init(i) ==
    /\ pc[i] = "start"
    /\ LET m == parse_argv(me[i], argv[i])
           k == FirstId(m)
           E == Effect(WINDOW, m)
       IN IF k # 0
          THEN \* int(self.MOVIEID) raises ValueError on a non-number
               /\ me' = [me EXCEPT ![i] = m]
               /\ UNCHANGED <<WINDOW, handoff>>
               /\ IF IdValue(m, k) \in Numeric
                  THEN /\ pc' = [pc EXCEPT ![i] = "done"]
                       /\ out' = Did("__init__", i, IdKeys[k],
                                     Issue(E, OpenRequest(m, k)))
                  ELSE /\ pc' = [pc EXCEPT ![i] = "crashed"]
                       /\ out' = Did("__init__", i, IdKeys[k],
                                     [E EXCEPT !.raised = "ValueError"])
          ELSE IF m.SHUTDOWNDLOG # ""
          THEN /\ me' = [me EXCEPT ![i] = m]
               /\ WINDOW' = setProperty(WINDOW, "Shutdown_mode", get_shutdown_mode)
               /\ pc' = [pc EXCEPT ![i] = "done"]
               /\ out' = Did("__init__", i, "shutdown", Issue(E, ShutdownQuery))
               /\ UNCHANGED handoff
          ELSE \E E1 \in {init_property([E EXCEPT !.me = init_vars(m)])} :
                  /\ me' = [me EXCEPT ![i] = E1.me]
                  /\ WINDOW' = clearProperty(E1.win, "SkinWidgets_Running")
                  /\ pc' = [pc EXCEPT ![i] = "startup"]
                  /\ out' = Did("__init__", i, "service", E1)
                  /\ handoff' = handoff \cup
                                  {<<j, i>> : j \in {x \in Instances : pc[x] = "waiting"}}
    /\ UNCHANGED <<argv, settings, lib, abort, playing, windowId, focus>>

\* the three startup fetches
Startup(i) ==
    /\ pc[i] = "startup"
    /\ \E shuffled \in Shuffles(AddonList(lib)) :
         \E E \in {fetch_info_recentitems(
                      fetch_info_recommended(
                        fetch_info_randomitems(Effect(WINDOW, me[i]), shuffled)))} :
            /\ me' = [me EXCEPT ![i] = E.me]
            /\ WINDOW' = E.win
            /\ pc' = [pc EXCEPT ![i] = IF E.raised = "" THEN "set_running"
                                       ELSE "crashed"]
            /\ out' = Did("startup", i, "", E)
    /\ UNCHANGED <<argv, settings, lib, abort, playing, windowId, handoff, focus>>

SetRunning(i) ==
    /\ pc[i] = "set_running"
    /\ WINDOW' = setProperty(WINDOW, "SkinWidgets_Running", "true")
    /\ pc' = [pc EXCEPT ![i] = "daemon"]
    /\ out' = Did("set_running", i, "", Effect(WINDOW, me[i]))
    /\ UNCHANGED <<argv, me, settings, lib, abort, playing, windowId, handoff,
                   focus>>

\* the loop condition; when it fails the else clause runs: return on abort,
\* otherwise drop the callbacks and clear every slot's Title
DaemonCond(i) ==
    /\ pc[i] = "daemon"
    /\ IF abort
       THEN /\ pc' = [pc EXCEPT ![i] = "done"]
            /\ out' = Did("_daemon", i, "abort", Effect(WINDOW, me[i]))
            /\ UNCHANGED <<me, WINDOW>>
       ELSE IF getProperty(WINDOW, "SkinWidgets_Running") # "true"
       THEN /\ pc' = [pc EXCEPT ![i] = "done"]
            /\ me' = [me EXCEPT ![i].callbacks = FALSE]
            /\ WINDOW' = ClearAll(WINDOW)
            /\ out' = Did("_daemon", i, "replaced", Effect(WINDOW, me[i]))
       ELSE /\ pc' = [pc EXCEPT ![i] = "waiting"]
            /\ out' = Did("_daemon", i, "loop", Effect(WINDOW, me[i]))
            /\ UNCHANGED <<me, WINDOW>>
    /\ UNCHANGED <<argv, settings, lib, abort, playing, windowId, handoff, focus>>

\* waitForAbort(1) and, unless it breaks the loop, the loop body
DaemonTick(i) ==
    /\ pc[i] = "waiting"
    /\ IF abort
       THEN /\ pc' = [pc EXCEPT ![i] = "done"]
            /\ WINDOW' = ClearAll(WINDOW)
            /\ out' = Did("_daemon", i, "break", Effect(WINDOW, me[i]))
            /\ UNCHANGED me
       ELSE \E shuffled \in Shuffles(AddonList(lib)) :
              \E E \in {daemon_body(Effect(WINDOW, me[i]), shuffled)} :
                 /\ me' = [me EXCEPT ![i] = E.me]
                 /\ WINDOW' = E.win
                 /\ pc' = [pc EXCEPT ![i] = IF E.raised = "" THEN "daemon"
                                            ELSE "crashed"]
                 /\ out' = Did("_daemon", i, IF playing THEN "playing" ELSE "tick", E)
    /\ UNCHANGED <<argv, settings, lib, abort, playing, windowId, handoff, focus>>

\* Widgets_Monitor.onScanFinished(library): self.update_listitems(library)
onScanFinished(i, library) ==
    /\ pc[i] \in Loop
    /\ me[i].callbacks
    /\ \E shuffled \in Shuffles(AddonList(lib)) :
         \E E \in {update(Effect(WINDOW, me[i]), library, shuffled)} :
            /\ me' = [me EXCEPT ![i] = E.me]
            /\ WINDOW' = E.win
            /\ out' = Did("onScanFinished", i, library, E)
    /\ UNCHANGED <<argv, pc, settings, lib, abort, playing, windowId, handoff,
                   focus>>

\* _on_change without its clearing loops
MutOnChange(E, shuffled) ==
    fetch_info_recentitems(
      fetch_info_recommended(
        fetch_info_randomitems(init_property(E), shuffled)))

\* Main._on_change: clear every slot's Title, read the settings again and
\* fetch the random, the recommended and the recent widgets
on_change(E, shuffled) ==
    fetch_info_recentitems(
      fetch_info_recommended(
        fetch_info_randomitems(
          init_property([E EXCEPT !.win = ClearAll(@)]), shuffled)))

\* Widgets_Monitor.onSettingsChanged: self.update_settings()
onSettingsChanged(i) ==
    /\ pc[i] \in Loop
    /\ me[i].callbacks
    /\ \E shuffled \in Shuffles(AddonList(lib)) :
         \E E \in {on_change(Effect(WINDOW, me[i]), shuffled)} :
            /\ me' = [me EXCEPT ![i] = E.me]
            /\ WINDOW' = E.win
            /\ out' = Did("onSettingsChanged", i, "", E)
    /\ UNCHANGED <<argv, pc, settings, lib, abort, playing, windowId, handoff,
                   focus>>

----------------------------------------------------------------------------
(* Widgets_Player: the callbacks of the instance's Player object. played is *)
(* what the host last started ("" once it stopped or ended), type is the    *)
(* Player's self.type.                                                      *)

\* what the host plays: audio, a movie, a movie file with '-trailer' or
\* 'http://' in its name, an episode, a music video, anything else
Contents == {"music", "movie", "trailer", "episode", "musicvideo", "other"}

\* self.type after onPlayBackStarted: a classified content sets it, any
\* other leaves it as it was
Classified(content, type) ==
    IF content \in {"music", "movie", "episode", "musicvideo"} THEN content
    ELSE type

onPlayBackStarted(i, content) ==
    /\ pc[i] \in Loop
    /\ me' = [me EXCEPT ![i].played = content,
                        ![i].type = IF abort THEN @ ELSE Classified(content, @)]
    /\ out' = Did("onPlayBackStarted", i, content, Effect(WINDOW, me[i]))
    /\ UNCHANGED <<argv, pc, WINDOW, settings, lib, abort, playing, windowId,
                   handoff, focus>>

\* self.action(self.type) for the four types, then self.type = ""; calling
\* an action that was set to None raises
Stopped(i, op) ==
    /\ pc[i] \in Loop
    /\ \E shuffled \in Shuffles(AddonList(lib)) :
         \E E \in {IF me[i].type \in {"movie", "episode", "music", "musicvideo"}
                   THEN IF me[i].callbacks
                        THEN update(Effect(WINDOW, me[i]), me[i].type, shuffled)
                        ELSE [Effect(WINDOW, me[i]) EXCEPT !.raised = "TypeError"]
                   ELSE Effect(WINDOW, me[i])} :
            /\ me' = [me EXCEPT ![i] = [E.me EXCEPT
                                          !.played = "",
                                          !.type = IF E.raised = "" THEN "" ELSE @]]
            /\ WINDOW' = E.win
            /\ out' = Did(op, i, me[i].type, E)
    /\ UNCHANGED <<argv, pc, settings, lib, abort, playing, windowId, handoff,
                   focus>>

onPlayBackStopped(i) == Stopped(i, "onPlayBackStopped")

\* onPlayBackEnded runs onPlayBackStopped
onPlayBackEnded(i) == Stopped(i, "onPlayBackEnded")

----------------------------------------------------------------------------
(* The host *)

AbortRequested ==
    /\ ~abort
    /\ abort' = TRUE
    /\ out' = Idle
    /\ UNCHANGED <<argv, pc, me, WINDOW, settings, lib, playing, windowId,
                   handoff, focus>>

PlaybackChanges ==
    /\ playing' = ~playing
    /\ out' = Idle
    /\ UNCHANGED <<argv, pc, me, WINDOW, settings, lib, abort, windowId,
                   handoff, focus>>

WindowChanges ==
    /\ windowId' = IF windowId = HOME THEN HOME + 1 ELSE HOME
    /\ out' = Idle
    /\ UNCHANGED <<argv, pc, me, WINDOW, settings, lib, abort, playing,
                   handoff, focus>>

\* the skin asks for new random items
SkinAsksRandom ==
    /\ getProperty(WINDOW, "SkinWidgets_RandomItems_Update") = "false"
    /\ WINDOW' = setProperty(WINDOW, "SkinWidgets_RandomItems_Update", "true")
    /\ out' = Idle
    /\ UNCHANGED <<argv, pc, me, settings, lib, abort, playing, windowId,
                   handoff, focus>>

----------------------------------------------------------------------------
(* Initial states *)

NewMain ==
    [MOVIEID |-> "", EPISODEID |-> "", MUSICVIDEOID |-> "", ALBUMID |-> "",
     SONGID |-> "", RESUME |-> "true", SHUTDOWNDLOG |-> "",
     callbacks |-> FALSE, type |-> "", played |-> "",
     RANDOMITEMS_UNPLAYED |-> FALSE, RECENTITEMS_UNPLAYED |-> FALSE,
     RANDOMITEMS_UPDATE_METHOD |-> PyStr(""), RECENTITEMS_HOME_UPDATE |-> "",
     PLOT_ENABLE |-> FALSE, RANDOMITEMS_TIME |-> PyStr(""),
     count |-> 0, home_update |-> FALSE]

MkSettings(recommended, random, recent, method, homeupdate, unplayed) ==
    [id \in {"recommended_enable", "randomitems_enable", "recentitems_enable",
             "randomitems_method", "recentitems_homeupdate", "plot_enable",
             "randomitems_time", "randomitems_unplayed", "recentitems_unplayed",
             "randomitems_seasonfolders"} |->
        CASE id = "recommended_enable" -> recommended
          [] id = "randomitems_enable" -> random
          [] id = "recentitems_enable" -> recent
          [] id = "randomitems_method" -> method
          [] id = "recentitems_homeupdate" -> homeupdate
          [] id = "randomitems_time" -> "1"
          [] id \in {"randomitems_unplayed", "recentitems_unplayed"} -> unplayed
          [] OTHER -> "true"]

AllOn == MkSettings("true", "true", "true", "0", "true", "false")

\* libraries: the host errs; the lists are missing; empty lists; one row; two
\* rows; three rows, one show without an unplayed episode, the last add-on
\* query errs; more rows than LIMIT
LibError == MkLib("error", 0, 0, {}, Error, Error, Error)
LibNoList == MkLib("nolist", 0, 0, {}, NoList, NoList, NoList)
LibEmpty == MkLib("list", 0, 0, {}, List(<<>>), List(<<>>), List(<<>>))
LibOne == MkLib("list", 1, 0, {}, List(AddonRows(0, 1)), NoList, NoList)
LibTwo == MkLib("list", 2, 0, {}, List(AddonRows(0, 2)), List(AddonRows(2, 1)),
                List(<<>>))
LibThree == MkLib("list", 3, 100, {102}, List(AddonRows(103, 6)), NoList, Error)
LibMany == MkLib("list", LIMIT + 1, 200, {}, List(AddonRows(200, LIMIT + 6)),
                 NoList, NoList)

LibSet == {LibError, LibNoList, LibEmpty, LibTwo, LibThree, LibMany}

ScriptName == <<<<"default.py">>>>

\* key=value pieces: ids that are numbers, empty or no number; resume;
\* shutdown; and pieces with no '=' or two
Pieces ==
    {<<"movieid", v>> : v \in {"5", "", "x"}}
    \cup {<<"episodeid", v>> : v \in {"7", ""}}
    \cup {<<"musicvideoid", "5">>, <<"albumid", "7">>, <<"songid", "0">>,
          <<"songid", "x">>, <<"shutdown", "true">>,
          <<"resume", "false">>, <<"resume", "true">>,
          <<"movieid">>, <<"songid", "5", "7">>}

Arguments == UNION {[1..n -> Pieces] : n \in 1..MaxPieces}

ArgvSet ==
    {<<ScriptName>>}
    \cup {<<ScriptName, a>> : a \in Arguments}
    \cup {<<ScriptName, a, <<r>>>> :
            a \in Arguments, r \in {<<"resume", "false">>, <<"resume", "true">>}}

\* properties an earlier run of the service left behind
OldWindow ==
    setProperty(setProperty(<<>>, "RecentMovie.1.Title", "old"),
                "Shutdown_mode", "old")

NoFocus == [request |-> "", n |-> 0]

\* the launcher: instance 1 is run with any of the argument lists
InitLaunch ==
    /\ argv \in [Instances -> ArgvSet]
    /\ argv[2] = <<ScriptName>>
    /\ pc = [i \in Instances |-> IF i = 1 THEN "start" ELSE "off"]
    /\ me = [i \in Instances |-> NewMain]
    /\ WINDOW \in {<<>>, OldWindow}
    /\ settings = AllOn
    /\ lib = LibOne
    /\ abort = FALSE
    /\ playing = FALSE
    /\ windowId = HOME
    /\ out = Idle
    /\ handoff = {}
    /\ focus = NoFocus

NextLaunch ==
    \/ Main_init(1)
    \/ Startup(1)
    \/ SetRunning(1)

SpecLaunch == InitLaunch /\ [][NextLaunch]_vars

----------------------------------------------------------------------------
(* The service: one instance, the host's events and the Monitor's callback *)

SettingsSet ==
    {AllOn,
     MkSettings("true", "true", "true", "1", "false", "true"),
     MkSettings("false", "false", "false", "1", "true", "false"),
     MkSettings("true", "false", "true", "0", "false", "true")}

NoArguments == [i \in Instances |-> <<ScriptName>>]

Init ==
    /\ argv = NoArguments
    /\ pc = [i \in Instances |-> IF i = 1 THEN "start" ELSE "off"]
    /\ me = [i \in Instances |-> NewMain]
    /\ WINDOW = <<>>
    /\ settings \in SettingsSet
    /\ lib \in {LibTwo, LibThree}
    /\ abort = FALSE
    /\ playing = FALSE
    /\ windowId = HOME
    /\ out = Idle
    /\ handoff = {}
    /\ focus = NoFocus

Next ==
    \/ Main_init(1)
    \/ Startup(1)
    \/ SetRunning(1)
    \/ DaemonCond(1)
    \/ DaemonTick(1)
    \/ \E library \in {"video", "music"} : onScanFinished(1, library)
    \/ AbortRequested
    \/ PlaybackChanges
    \/ WindowChanges
    \/ SkinAsksRandom

Spec == Init /\ [][Next]_vars

----------------------------------------------------------------------------
(* The handoff: two instances of the service, started in any order *)

InitHandoff ==
    /\ argv = NoArguments
    /\ pc = [i \in Instances |-> "start"]
    /\ me = [i \in Instances |-> NewMain]
    /\ WINDOW = <<>>
    /\ settings \in {AllOn, MkSettings("false", "false", "false", "1", "false", "false")}
    /\ lib = LibOne
    /\ abort = FALSE
    /\ playing = FALSE
    /\ windowId = HOME
    /\ out = Idle
    /\ handoff = {}
    /\ focus = NoFocus

NextHandoff ==
    \/ \E i \in Instances :
         \/ Main_init(i)
         \/ Startup(i)
         \/ SetRunning(i)
         \/ DaemonCond(i)
         \/ DaemonTick(i)
    \/ AbortRequested

SpecHandoff == InitHandoff /\ [][NextHandoff]_vars

----------------------------------------------------------------------------
(* The fetch operations on their own: the request in focus is fetched up to *)
(* MaxFetches times by a running service while the library changes         *)

Fetched(op, request, E) ==
    /\ focus.n < MaxFetches
    /\ focus.request \in {"", request}
    /\ focus' = [request |-> request, n |-> focus.n + 1]
    /\ me' = [me EXCEPT ![1] = E.me]
    /\ WINDOW' = E.win
    /\ out' = Did(op, 1, request, E)
    /\ UNCHANGED <<argv, pc, settings, lib, abort, playing, windowId, handoff>>

FetchMovies ==
    \E request \in {"RecommendedMovie", "RecentMovie", "RandomMovie", "OtherMovie"} :
        Fetched("_fetch_movies", request,
                fetch_movies(Effect(WINDOW, me[1]), request))

FetchTvshowsRecommended ==
    Fetched("_fetch_tvshows_recommended", "RecommendedEpisode",
            fetch_tvshows_recommended(Effect(WINDOW, me[1]), "RecommendedEpisode"))

FetchTvshows ==
    \E request \in {"RecentEpisode", "RandomEpisode"} :
        Fetched("_fetch_tvshows", request,
                fetch_tvshows(Effect(WINDOW, me[1]), request))

FetchMusicvideo ==
    \E request \in {"RecommendedMusicVideo", "RecentMusicVideo", "RandomMusicVideo"} :
        Fetched("_fetch_musicvideo", request,
                fetch_musicvideo(Effect(WINDOW, me[1]), request))

FetchAlbums ==
    \E request \in {"RecommendedAlbum", "RecentAlbum", "RandomAlbum"} :
        Fetched("_fetch_albums", request,
                fetch_albums(Effect(WINDOW, me[1]), request))

FetchArtist ==
    Fetched("_fetch_artist", "RandomArtist",
            fetch_artist(Effect(WINDOW, me[1]), "RandomArtist"))

FetchSong ==
    Fetched("_fetch_song", "RandomSong",
            fetch_song(Effect(WINDOW, me[1]), "RandomSong"))

FetchAddon ==
    \E shuffled \in Shuffles(AddonList(lib)) :
        Fetched("_fetch_addon", "RandomAddon",
                fetch_addon(Effect(WINDOW, me[1]), "RandomAddon", shuffled))

LibraryChanges ==
    /\ focus.n < MaxFetches
    /\ out.op # ""
    /\ lib' \in LibSet \ {lib}
    /\ out' = Idle
    /\ UNCHANGED <<argv, pc, me, WINDOW, settings, abort, playing, windowId,
                   handoff, focus>>

\* a service in its daemon loop, its unplayed flags as the settings had them
InitFetch ==
    /\ argv = NoArguments
    /\ pc = [i \in Instances |-> IF i = 1 THEN "waiting" ELSE "off"]
    /\ settings = AllOn
    /\ lib \in LibSet
    /\ \E ru, ce \in BOOLEAN :
         LET E == init_property(Effect(<<>>, init_vars(NewMain)))
         IN /\ me = [i \in Instances |->
                       IF i = 1
                       THEN [E.me EXCEPT !.RANDOMITEMS_UNPLAYED = ru,
                                         !.RECENTITEMS_UNPLAYED = ce]
                       ELSE NewMain]
            /\ WINDOW = setProperty(E.win, "SkinWidgets_Running", "true")
    /\ abort = FALSE
    /\ playing = FALSE
    /\ windowId = HOME
    /\ out = Idle
    /\ handoff = {}
    /\ focus = NoFocus

NextFetch ==
    \/ FetchMovies
    \/ FetchTvshowsRecommended
    \/ FetchTvshows
    \/ FetchMusicvideo
    \/ FetchAlbums
    \/ FetchArtist
    \/ FetchSong
    \/ FetchAddon
    \/ LibraryChanges
    \/ AbortRequested

SpecFetch == InitFetch /\ [][NextFetch]_vars

----------------------------------------------------------------------------
(* The Player's callbacks on their own, in a service that is in its loop *)

InitPlayer ==
    /\ argv = NoArguments
    /\ pc = [i \in Instances |-> IF i = 1 THEN "waiting" ELSE "off"]
    /\ settings = AllOn
    /\ lib = LibOne
    /\ \E E \in {init_property(Effect(<<>>, init_vars(NewMain)))} :
         /\ me = [i \in Instances |-> IF i = 1 THEN E.me ELSE NewMain]
         /\ WINDOW = setProperty(E.win, "SkinWidgets_Running", "true")
    /\ abort = FALSE
    /\ playing = FALSE
    /\ windowId = HOME
    /\ out = Idle
    /\ handoff = {}
    /\ focus = NoFocus

NextPlayer ==
    \/ \E content \in Contents : onPlayBackStarted(1, content)
    \/ onPlayBackStopped(1)
    \/ onPlayBackEnded(1)
    \/ AbortRequested

SpecPlayer == InitPlayer /\ [][NextPlayer]_vars

----------------------------------------------------------------------------
(* The settings dialog: a service in its loop whose settings are saved *)

\* the user saves other add-on settings
SettingsChanges ==
    /\ settings' \in SettingsSet \ {settings}
    /\ out' = Idle
    /\ UNCHANGED <<argv, pc, me, WINDOW, lib, abort, playing, windowId,
                   handoff, focus>>

InitSettings ==
    /\ argv = NoArguments
    /\ pc = [i \in Instances |-> IF i = 1 THEN "waiting" ELSE "off"]
    /\ settings = AllOn
    /\ lib \in {LibEmpty, LibTwo, LibThree}
    /\ \E E \in {init_property(Effect(<<>>, init_vars(NewMain)))} :
         /\ me = [i \in Instances |-> IF i = 1 THEN E.me ELSE NewMain]
         /\ WINDOW = setProperty(E.win, "SkinWidgets_Running", "true")
    /\ abort = FALSE
    /\ playing = FALSE
    /\ windowId = HOME
    /\ out = Idle
    /\ handoff = {}
    /\ focus = NoFocus

NextSettings ==
    \/ SettingsChanges
    \/ onSettingsChanged(1)
    \/ AbortRequested

SpecSettings == InitSettings /\ [][NextSettings]_vars

----------------------------------------------------------------------------
(* Two fetches of one request at a time: the daemon loop's home update      *)
(* (_fetch_info_recentitems) and a callback's _update('movie') both call    *)
(* _fetch_movies('RecentMovie'). The code holds no lock, so the statements  *)
(* of the two calls interleave. In this specification pc gives, for each    *)
(* thread of control, its position in _fetch_movies and the call's locals:  *)
(* the rows of json_query and the loop's count.                             *)

Threads == {"daemon", "callback"}

At(at, rows, count) == [at |-> at, rows |-> rows, count |-> count]

\* the abort test, the query and the test for the list in the answer
fetch_movies_query(t) ==
    /\ pc[t].at = "idle"
    /\ \E resp \in {Answer(lib.movies, MoviesQuery(me[1], focus.request).end)} :
         pc' = [pc EXCEPT ![t] = IF abort \/ ~HasList(resp)
                                 THEN At("skipped", <<>>, 0)
                                 ELSE At("clear", resp.rows, 0)]
    /\ out' = [Idle EXCEPT !.op = "query", !.arg = t]
    /\ UNCHANGED <<argv, me, WINDOW, settings, lib, abort, playing, windowId,
                   handoff, focus>>

\* self._clear_properties(request)
fetch_movies_clear(t) ==
    /\ pc[t].at = "clear"
    /\ WINDOW' = clear_properties(WINDOW, focus.request)
    /\ pc' = [pc EXCEPT ![t].at = IF Len(pc[t].rows) = 0 THEN "done"
                                  ELSE "set"]
    /\ out' = [Idle EXCEPT !.op = "clear", !.arg = t]
    /\ UNCHANGED <<argv, me, settings, lib, abort, playing, windowId, handoff,
                   focus>>

\* one pass of the loop over the rows: count += 1 and the setProperty calls
fetch_movies_item(t) ==
    /\ pc[t].at = "set"
    /\ \E count \in {pc[t].count + 1} :
         /\ WINDOW' = setProperty(
                         setProperty(WINDOW, Slot(focus.request, count, "Title"),
                                     pc[t].rows[count].title),
                         Slot(focus.request, count, "Play"),
                         Play("movieid", pc[t].rows[count].id))
         /\ pc' = [pc EXCEPT ![t].count = count,
                             ![t].at = IF count = Len(pc[t].rows) THEN "done"
                                       ELSE "set"]
    /\ out' = [Idle EXCEPT !.op = "item", !.arg = t]
    /\ UNCHANGED <<argv, me, settings, lib, abort, playing, windowId, handoff,
                   focus>>

\* the library changes while one of the two calls has its answer
LibraryChangesBetween ==
    /\ \E t \in Threads : pc[t].at = "idle"
    /\ \E t \in Threads : pc[t].at # "idle"
    /\ lib' \in {LibEmpty, LibOne, LibTwo, LibThree} \ {lib}
    /\ out' = Idle
    /\ UNCHANGED <<argv, pc, me, WINDOW, settings, abort, playing, windowId,
                   handoff, focus>>

InitRace ==
    /\ argv = NoArguments
    /\ pc = [t \in Threads |-> At("idle", <<>>, 0)]
    /\ settings = AllOn
    /\ lib \in {LibError, LibEmpty, LibOne, LibTwo, LibThree}
    /\ \E E \in {init_property(Effect(<<>>, init_vars(NewMain)))} :
         /\ me = [i \in Instances |-> IF i = 1 THEN E.me ELSE NewMain]
         /\ WINDOW = setProperty(E.win, "SkinWidgets_Running", "true")
    /\ abort = FALSE
    /\ playing = FALSE
    /\ windowId = HOME
    /\ out = Idle
    /\ handoff = {}
    /\ focus = [request |-> "RecentMovie", n |-> 0]

NextRace ==
    \/ \E t \in Threads : fetch_movies_query(t)
    \/ \E t \in Threads : fetch_movies_clear(t)
    \/ \E t \in Threads : fetch_movies_item(t)
    \/ LibraryChangesBetween
    \/ AbortRequested

SpecRace == InitRace /\ [][NextRace]_vars

----------------------------------------------------------------------------
(* The launcher: what an invocation with arguments does *)

\* the first argument splits into key=value pieces
WellFormed(av) == Len(av) >= 2 /\ \A p \in 1..Len(av[2]) : Len(av[2][p]) = 2

\* the value the first argument gives to key: that of its last piece with
\* the key, "" when there is none
Given(av, key) ==
    LET ps == {p \in 1..Len(av[2]) : av[2][p][1] = key}
    IN IF ps = {} THEN ""
       ELSE av[2][CHOOSE p \in ps : \A q \in ps : q <= p][2]

\* the id kinds given a value, and the first of them in the order of IdKeys
GivenKinds(av) == {k \in 1..Len(IdKeys) : Given(av, IdKeys[k]) # ""}
FirstKind(av) == CHOOSE k \in GivenKinds(av) : \A j \in GivenKinds(av) : k <= j

\* some argument is exactly resume=false
AsksNoResume(av) == \E a \in 1..Len(av) : av[a] = <<<<"resume", "false">>>>

\* instance 1 was launched with an id and issued its request
Opened == out.op = "__init__" /\ out.inst = 1 /\ out.raised = "" /\ Len(out.rpc) = 1
             /\ out.rpc[1].method = "Player.Open"

CarriesId(av) ==
    Len(av) >= 2 /\ \E p \in 1..Len(av[2]) : \E k \in 1..Len(IdKeys) :
        Len(av[2][p]) = 2 /\ av[2][p][1] = IdKeys[k]

\* C2 as stated: an invocation that carries an id argument issues exactly
\* one Player.Open request, changes no window property and does not start
\* the service.
C2_IdArgumentNeverServes ==
    [][(pc[1] = "start" /\ pc'[1] # "start" /\ CarriesId(argv[1])) =>
          /\ pc'[1] = "done"
          /\ Len(out'.rpc) = 1
          /\ out'.rpc[1].method = "Player.Open"
          /\ WINDOW' = WINDOW]_vars

\* C2 amended: when the first argument splits into key=value pieces and
\* gives a non-empty value to an id key, __init__ changes no window property
\* and ends without starting the service; it issues exactly one request,
\* Player.Open of the first such key in the order movieid, episodeid,
\* musicvideoid, albumid, songid, when that value is a number, and raises
\* without a request when it is not. Every other invocation sets
\* Shutdown_mode and ends when it gives shutdown a value, and otherwise
\* starts the service: also when its id values are empty or its first
\* argument does not split. An invocation that ended stays ended.
C2_ParsedIdNeverServes ==
    [][/\ (pc[1] = "start" /\ pc'[1] # "start") =>
            LET av == argv[1]
            IN IF WellFormed(av) /\ GivenKinds(av) # {}
               THEN LET k == FirstKind(av)
                        v == Given(av, IdKeys[k])
                    IN /\ WINDOW' = WINDOW
                       /\ out'.calls = <<>>
                       /\ IF v \in Numeric
                          THEN /\ pc'[1] = "done"
                               /\ Len(out'.rpc) = 1
                               /\ out'.rpc[1].method = "Player.Open"
                               /\ out'.rpc[1].key = IdKeys[k]
                               /\ out'.rpc[1].id = IntOf(v)
                          ELSE /\ pc'[1] = "crashed"
                               /\ out'.rpc = <<>>
               ELSE IF WellFormed(av) /\ Given(av, "shutdown") # ""
               THEN /\ pc'[1] = "done"
                    /\ out'.rpc = <<ShutdownQuery>>
                    /\ WINDOW' = setProperty(WINDOW, "Shutdown_mode",
                                             get_shutdown_mode)
               ELSE /\ pc'[1] = "startup"
                    /\ "SkinWidgets_Running" \notin DOMAIN WINDOW'
       /\ (pc[1] \in {"done", "crashed"} => pc'[1] = pc[1])
       /\ (pc'[1] \in {"set_running", "daemon"} =>
             ~(WellFormed(argv[1]) /\ GivenKinds(argv[1]) # {}))]_vars

\* two ids given: the request is the one of the earlier kind
C2_Witness ==
    /\ Opened
    /\ pc[1] = "done"
    /\ out.rpc[1].key = "episodeid"
    /\ \E p \in 1..Len(argv[1][2]) : argv[1][2][p] = <<"songid", "0">>
    /\ WINDOW = OldWindow

----------------------------------------------------------------------------
(* The service: what its timer and the scan notifications refetch *)

\* the requests of the fetches a step called, in the order of the calls
Requests(calls) == [n \in 1..Len(calls) |-> calls[n].request]

Called(request) == \E n \in 1..Len(out.calls) : out.calls[n].request = request

\* C3 as stated: with the timer method (randomitems_method 0) every pass of
\* the daemon loop in which no video is playing counts one tick, and the
\* pass in which the count reaches RANDOMITEMS_TIME (120 times the
\* randomitems_time setting) calls _fetch_info_randomitems and resets the
\* count to 0.
C3_TimerCountsTicks ==
    [][\A i \in Instances :
         (/\ pc[i] = "waiting"
          /\ pc'[i] = "daemon"
          /\ ~playing
          /\ settings["randomitems_method"] = "0"
          /\ settings["randomitems_enable"] = "true"
          /\ getProperty(WINDOW, "SkinWidgets_RandomItems_Update") # "true")
         => IF me[i].count + 1 = 120 * IntOf(settings["randomitems_time"])
            THEN /\ me'[i].count = 0
                 /\ \E n \in 1..Len(out'.calls) :
                      out'.calls[n].request = "RandomMovie"
            ELSE me'[i].count = me[i].count + 1]_vars

VideoScanFetches ==
    <<[op |-> "_fetch_movies", request |-> "RecommendedMovie"],
      [op |-> "_fetch_tvshows_recommended", request |-> "RecommendedEpisode"],
      [op |-> "_fetch_movies", request |-> "RecentMovie"],
      [op |-> "_fetch_tvshows", request |-> "RecentEpisode"],
      [op |-> "_fetch_musicvideo", request |-> "RecentMusicVideo"]>>

MusicScanFetches ==
    <<[op |-> "_fetch_albums", request |-> "RecommendedAlbum"],
      [op |-> "_fetch_albums", request |-> "RecentAlbum"]>>

\* the last step was the Monitor's onScanFinished(library)
ScanFinished(library) == out.op = "onScanFinished" /\ out.arg = library

\* calls begins with the fetches of want, and each of them sent its query
Begins(want) ==
    /\ Len(out.calls) >= Len(want)
    /\ SubSeq(out.calls, 1, Len(want)) = want
    /\ Len(out.rpc) >= Len(want)

\* C4: a 'video' scan-finished notification runs the fetches
\* RecommendedMovie, RecommendedEpisode, RecentMovie, RecentEpisode and
\* RecentMusicVideo, a 'music' one runs RecommendedAlbum and RecentAlbum,
\* and a notification whose wait ends with abort requested runs no fetch
\* and sends no query.
C4_ScanRefetchesLibrary ==
    /\ ScanFinished("video") =>
         IF abort THEN out.calls = <<>> /\ out.rpc = <<>>
         ELSE Begins(VideoScanFetches)
    /\ ScanFinished("music") =>
         IF abort THEN out.calls = <<>> /\ out.rpc = <<>>
         ELSE Begins(MusicScanFetches)

C4_Witness ==
    /\ ScanFinished("video")
    /\ ~abort
    /\ Requests(out.calls) = Requests(VideoScanFetches)
    /\ getProperty(WINDOW, Slot("RecentMusicVideo", 2, "Title")) # ""

\* C5 as stated: with the library-update method (randomitems_method 1) a
\* 'video' scan-finished notification also refetches RandomMovie,
\* RandomEpisode and RandomMusicVideo, and a 'music' one also refetches
\* RandomAlbum, RandomArtist, RandomSong and RandomAddon.
C5_ScanRefetchesRandom ==
    /\ (ScanFinished("video") /\ ~abort /\ settings["randomitems_method"] = "1") =>
         \A r \in {"RandomMovie", "RandomEpisode", "RandomMusicVideo"} : Called(r)
    /\ (ScanFinished("music") /\ ~abort /\ settings["randomitems_method"] = "1") =>
         \A r \in {"RandomAlbum", "RandomArtist", "RandomSong", "RandomAddon"} :
            Called(r)

----------------------------------------------------------------------------
(* The fetch operations: what they leave alone and what they write *)

FetchOps ==
    {"_fetch_movies", "_fetch_tvshows_recommended", "_fetch_tvshows",
     "_fetch_musicvideo", "_fetch_albums", "_fetch_artist", "_fetch_song",
     "_fetch_addon"}

\* the rows of the add-on answers, in the order of the three queries
AddonAnswerRows ==
    lib.addons["audio"].rows \o lib.addons["video"].rows
        \o lib.addons["unknown"].rows

\* the answer the host gives to the operation's list query
Response(op) ==
    CASE op = "_fetch_movies" -> Answer(lib.movies, LIMIT)
      [] op = "_fetch_tvshows_recommended" -> Answer(lib.tvshows, LIMIT)
      [] op = "_fetch_tvshows" -> Answer(lib.episodes, LIMIT)
      [] op = "_fetch_musicvideo" -> Answer(lib.musicvideos, LIMIT)
      [] op = "_fetch_albums" -> Answer(lib.albums, LIMIT)
      [] op = "_fetch_artist" -> Answer(lib.artists, LIMIT)
      [] op = "_fetch_song" -> Answer(lib.songs, LIMIT)
      [] OTHER ->
           IF \E c \in DOMAIN lib.addons : HasList(lib.addons[c])
           THEN List(AddonAnswerRows)
           ELSE lib.addons["unknown"]

\* C6 as stated: a fetch operation whose answer does not contain the
\* expected list leaves every window property unchanged.
C6_SkipIfEmpty ==
    [][(/\ focus' # focus
        /\ out'.op \in FetchOps
        /\ ~abort
        /\ ~HasList(Response(out'.op)))
       => WINDOW' = WINDOW]_vars

\* the last step was the operation op, which ran to its end
Fetch(op) == out.op = op /\ ~abort /\ out.raised = ""

Title(request, n) == getProperty(WINDOW, Slot(request, n, "Title"))

\* C8: the query of _fetch_movies: RecommendedMovie is the in-progress
\* filter sorted by last played descending; RecentMovie sorts by date added
\* descending and filters 'playcount is 0' exactly when RECENTITEMS_UNPLAYED;
\* every other request sorts at random and filters 'playcount lessthan 1'
\* exactly when it is RandomMovie and RANDOMITEMS_UNPLAYED. Neither flag has
\* a part in the other's queries or in the Recommended query.
C8_MoviesPolicy ==
    Fetch("_fetch_movies") =>
        /\ Len(out.rpc) = 1
        /\ out.rpc[1].method = "VideoLibrary.GetMovies"
        /\ out.rpc[1].end = LIMIT
        /\ IF out.arg = "RecommendedMovie"
           THEN /\ out.rpc[1].sort = "lastplayed"
                /\ out.rpc[1].order = "descending"
                /\ out.rpc[1].filter = "inprogress true"
           ELSE IF out.arg = "RecentMovie"
           THEN /\ out.rpc[1].sort = "dateadded"
                /\ out.rpc[1].order = "descending"
                /\ out.rpc[1].filter = IF me[1].RECENTITEMS_UNPLAYED
                                       THEN "playcount is 0" ELSE ""
           ELSE /\ out.rpc[1].sort = "random"
                /\ out.rpc[1].filter =
                     IF out.arg = "RandomMovie" /\ me[1].RANDOMITEMS_UNPLAYED
                     THEN "playcount lessthan 1" ELSE ""

\* the recent flag set, the random one not: the random query has no filter
C8_Witness ==
    /\ Fetch("_fetch_movies")
    /\ out.arg = "RandomMovie"
    /\ me[1].RECENTITEMS_UNPLAYED
    /\ ~me[1].RANDOMITEMS_UNPLAYED
    /\ out.rpc[1].filter = ""
    /\ Title("RandomMovie", 1) # ""

PlainFetchOps ==
    {"_fetch_movies", "_fetch_tvshows", "_fetch_musicvideo", "_fetch_albums",
     "_fetch_artist", "_fetch_song"}

\* every key a fetch for the request may write
SlotKeys(request) ==
    {Slot(request, n, field) :
        n \in 1..LIMIT, field \in {"Title", "Play", "Path", "LibraryPath"}}
      \cup {request \o ".Count"}

----------------------------------------------------------------------------
(* The three categories *)

Types == {"Movie", "Episode", "MusicVideo", "Album", "Artist", "Song", "Addon"}

\* the entity types the last step fetched for the widgets of a category
TypesOf(group) == {t \in Types : Called(group \o t)}

\* the startup fetches ran to their end with the three categories enabled
AllFetched ==
    /\ out.op = "startup"
    /\ out.raised = ""
    /\ ~abort
    /\ \A id \in {"recommended_enable", "randomitems_enable",
                  "recentitems_enable"} : settings[id] = "true"

\* C7 as stated: _fetch_info_recommended, _fetch_info_randomitems and
\* _fetch_info_recentitems fetch the same set of entity types.
C7_SameEntityTypes ==
    AllFetched =>
        /\ TypesOf("Recommended") = TypesOf("Random")
        /\ TypesOf("Random") = TypesOf("Recent")

\* C7 amended: _fetch_info_recommended and _fetch_info_recentitems fetch
\* the same entity types, movies, episodes, music videos and albums;
\* _fetch_info_randomitems fetches these and artists, songs and add-ons.
C7_RandomHasMoreTypes ==
    AllFetched =>
        /\ TypesOf("Recommended") = {"Movie", "Episode", "MusicVideo", "Album"}
        /\ TypesOf("Recent") = TypesOf("Recommended")
        /\ TypesOf("Random") = TypesOf("Recommended") \cup {"Artist", "Song", "Addon"}

C7_Witness ==
    /\ AllFetched
    /\ Len(out.calls) = 15
    /\ Title("RandomArtist", 1) # ""
    /\ Title("RecentAlbum", 1) # ""

----------------------------------------------------------------------------
(* The handoff between two instances *)

\* C9 as stated: once an instance that started while another was in its
\* daemon loop has set SkinWidgets_Running and entered its own loop, the
\* other's next look at the loop condition ends its loop.
C9_FirstInstanceStops ==
    [][\A i, j \in Instances :
         (/\ <<i, j>> \in handoff
          /\ pc[j] \in Loop
          /\ pc[i] = "daemon"
          /\ pc'[i] # "daemon")
         => pc'[i] = "done"]_vars

----------------------------------------------------------------------------
(* The Player's callbacks *)

StopOps == {"onPlayBackStopped", "onPlayBackEnded"}

\* the media type of what the host last started, "" when it has none
TypeOfPlayed(content) == Classified(content, "")

\* C11 as stated: a stop or an end invokes the update once with the media
\* type of the item last played, and none when that item has no type or
\* when nothing was started since the last stop or end; then the type is
\* empty.
C11_UpdatesLastPlayed ==
    [][\A i \in Instances :
         (out'.op \in StopOps /\ out'.inst = i) =>
            /\ out'.arg = TypeOfPlayed(me[i].played)
            /\ me'[i].type = ""]_vars


----------------------------------------------------------------------------
(* C12 *)

\* the setting that enables a group of widgets
EnableOf(group) ==
    CASE group = "Recommended" -> "recommended_enable"
      [] group = "Random" -> "randomitems_enable"
      [] group = "Recent" -> "recentitems_enable"

Groups == {"Recommended", "Random", "Recent"}

Disabled(group) == getSetting(EnableOf(group)) # "true"

\* the group a request belongs to
GroupOf(request) == CHOOSE g \in Groups : \E t \in Types : request = g \o t

Changed == out.op = "onSettingsChanged" /\ out.raised = "" /\ ~abort

\* C12: when _on_change has completed with no abort requested, the settings
\* have been read again (the home window names each group's enable setting),
\* a fetch ran for a group exactly when its enable setting is 'true', and of
\* a group whose enable setting is not 'true' every type's slots 1..LIMIT
\* have an empty Title.
C12_DisabledGroupsEmpty ==
    Changed =>
      /\ getProperty(WINDOW, "SkinWidgets_Recommended")
           = getSetting("recommended_enable")
      /\ getProperty(WINDOW, "SkinWidgets_RandomItems")
           = getSetting("randomitems_enable")
      /\ getProperty(WINDOW, "SkinWidgets_RecentItems")
           = getSetting("recentitems_enable")
      /\ \A g \in Groups :
           IF Disabled(g)
           THEN /\ \A n \in 1..Len(out.calls) : GroupOf(out.calls[n].request) # g
                /\ \A t \in Types : \A n \in 1..LIMIT : Title(g \o t, n) = ""
           ELSE \E n \in 1..Len(out.calls) : GroupOf(out.calls[n].request) = g

\* _on_change completed with the random widgets disabled and the recommended
\* ones enabled: a recommended movie is shown, no random one
C12_Witness ==
    /\ Changed
    /\ Disabled("Random")
    /\ ~Disabled("Recommended")
    /\ Title("RecommendedMovie", 1) # ""
    /\ Title("RandomMovie", 1) = ""

----------------------------------------------------------------------------
(* C13 *)

\* the fields of a slot that the fetches set
Fields == {"Title", "Play", "Path", "LibraryPath"}

\* C13 as stated: the clearing a fetch begins with leaves no property of
\* the request's slots 1..LIMIT set, so after a fetch whose answer has a
\* list of k rows no field of a slot above k has a value.
C13_DroppedSlotsCleared ==
    (/\ out.op \in PlainFetchOps
     /\ ~abort
     /\ out.raised = ""
     /\ HasList(Response(out.op)))
    => \A n \in (Len(Response(out.op).rows) + 1)..LIMIT :
          \A field \in Fields :
             getProperty(WINDOW, Slot(out.arg, n, field)) = ""

----------------------------------------------------------------------------
(* C14 *)

\* the Titles of the request's slots after a fetch of these rows run alone
TitlesOf(rows) ==
    [n \in 1..LIMIT |-> IF n <= Len(rows) THEN rows[n].title ELSE ""]

TitlesNow == [n \in 1..LIMIT |-> Title(focus.request, n)]

\* C14 as stated: when the daemon loop and a callback have both run
\* _fetch_movies for the same request, in any interleaving, the Titles of
\* the request's slots 1..LIMIT are those of one of the two fetches run
\* alone, never a mixture of both.
C14_NoMixture ==
    (\A t \in Threads : pc[t].at = "done")
    => \E t \in Threads : TitlesNow = TitlesOf(pc[t].rows)

----------------------------------------------------------------------------
(* C15 *)

\* C15 as stated: once the old instance has returned from _daemon and the
\* new one is in its loop (no abort requested), the Titles the new instance
\* wrote in its startup fetches are still set: with every group enabled and
\* a movie in the library, slot 1 of the three movie requests has a Title.
C15_StartupTitlesKept ==
    \A i, j \in Instances :
       (/\ <<i, j>> \in handoff
        /\ pc[i] = "done"
        /\ pc[j] \in Loop
        /\ ~abort
        /\ settings = AllOn)
       => \A request \in {"RecommendedMovie", "RandomMovie", "RecentMovie"} :
             Title(request, 1) = lib.movies.rows[1].title

----------------------------------------------------------------------------
(* C16 *)

Returned(i) == out.op = "_daemon" /\ out.inst = i /\ pc[i] = "done"

NoTitle == \A g \in Groups : \A t \in Types : \A n \in 1..LIMIT :
              Title(g \o t, n) = ""

----------------------------------------------------------------------------
(* C17 *)

\* C17 as stated: no operation of the service runs a fetch for a request of
\* a group whose enable setting is not 'true'.
C17_DisabledNeverFetched ==
    \A n \in 1..Len(out.calls) : ~Disabled(GroupOf(out.calls[n].request))

----------------------------------------------------------------------------
(* C18 *)

\* C18 as stated: with abort requested each of the eight fetch operations
\* returns normally: it issues no query, leaves the home window as it was
\* and raises nothing.
C18_AbortedFetchReturns ==
    [][(out'.op \in FetchOps /\ abort) =>
          /\ out'.rpc = <<>>
          /\ out'.raised = ""
          /\ WINDOW' = WINDOW]_vars
====
